---- MODULE Spec2Model ----
(***************************************************************************)
(* A model of mock-jack's rules engine (internal/game/mockjack.go): the    *)
(* Card model, Hand.Value, the Deck (reset, shuffle, Draw) and the Game    *)
(* round state machine (NewGame, Deal, PlayerHit, PlayerStand,             *)
(* finishRound).                                                           *)
(*                                                                         *)
(* Every operation of the engine is synchronous and runs to completion, so *)
(* each exported operation is one action.  The deck's random source is the *)
(* only nondeterminism besides the caller's choice of operation.           *)
(***************************************************************************)
EXTENDS Integers, Sequences, FiniteSets, Bags, TLC

VARIABLES
    Deck,    \* Game.Deck: [cards, rng, shoe]
    Player,  \* Game.Player.Cards
    Dealer,  \* Game.Dealer.Cards
    State,   \* Game.State
    Result,  \* Game.Result
    call     \* the last call made on the object, with what it was called on

vars == <<Deck, Player, Dealer, State, Result, call>>

----------------------------------------------------------------------------
(* Bounds of the model.                                                    *)

\* the seeds the deck's random source may get from the clock are 0..MaxSeed
MaxSeed == 2
\* the shoe arguments tried are -1..MaxShoe
MaxShoe == 1
\* hands built card by card for the checks of Value have at most this many cards
MaxHandLen == 4
\* decks shuffled with freely chosen random numbers have at most this many cards
MaxShuffleLen == 4
\* the seeds tried when PlayerStand is followed step by step are 0..MaxStandSeed
MaxStandSeed == 0

----------------------------------------------------------------------------
(* Enumerations.                                                           *)

WaitingDeal == 0
PlayerTurn == 1
DealerTurn == 2
RoundOver == 3

Clubs == 0
Diamonds == 1
Hearts == 2
Spades == 3

Ace == 1
Ten == 10
King == 13

Suits == Clubs..Spades
Ranks == Ace..King

Card == [Suit : Suits, Rank : Ranks]

----------------------------------------------------------------------------
(* Hand.                                                                   *)

Clear(h) == SubSeq(h, 1, 0)

Add(h, c) == Append(h, c)

\* as SoftTotal, without the case for Ten and the face cards
RECURSIVE SoftTotalFaceByRank(_)
SoftTotalFaceByRank(h) ==
    IF h = <<>> THEN 0
    ELSE LET card == h[Len(h)]
             rest == SoftTotalFaceByRank(SubSeq(h, 1, Len(h) - 1))
         IN  IF card.Rank = Ace THEN rest + 11 ELSE rest + card.Rank

\* first loop of Value: every Ace counted as 11
RECURSIVE SoftTotal(_)
SoftTotal(h) ==
    IF h = <<>> THEN 0
    ELSE LET card == h[Len(h)]
             rest == SoftTotal(SubSeq(h, 1, Len(h) - 1))
         IN  IF card.Rank = Ace THEN rest + 11
             ELSE IF card.Rank >= Ten THEN rest + 10
             ELSE rest + card.Rank

RECURSIVE CountAces(_)
CountAces(h) ==
    IF h = <<>> THEN 0
    ELSE CountAces(SubSeq(h, 1, Len(h) - 1))
         + (IF h[Len(h)].Rank = Ace THEN 1 ELSE 0)

\* as Demote, with an if in place of the for: one Ace demoted at most
DemoteOnce(total, aces) ==
    IF total > 21 /\ aces > 0 THEN total - 10 ELSE total

\* the demotion loop: for total > 21 && aces > 0 { total -= 10; aces-- }
RECURSIVE Demote(_, _)
Demote(total, aces) ==
    IF total > 21 /\ aces > 0 THEN Demote(total - 10, aces - 1) ELSE total

\* the variable aces when the demotion loop ends: the Aces still counted as 11
RECURSIVE AcesLeft(_, _)
AcesLeft(total, aces) ==
    IF total > 21 /\ aces > 0 THEN AcesLeft(total - 10, aces - 1) ELSE aces

\* second loop of Value: every Ace counted as 1
RECURSIVE HardTotal(_)
HardTotal(h) ==
    IF h = <<>> THEN 0
    ELSE LET card == h[Len(h)]
             rest == HardTotal(SubSeq(h, 1, Len(h) - 1))
         IN  IF card.Rank = Ace THEN rest + 1
             ELSE IF card.Rank >= Ten THEN rest + 10
             ELSE rest + card.Rank

\* as Value, with hard+10 < 21 as the test for a soft hand
ValueSoftBelow21(h) ==
    [best   |-> Demote(SoftTotal(h), CountAces(h)),
     isSoft |-> CountAces(h) > 0 /\ HardTotal(h) + 10 < 21]

Value(h) ==
    [best   |-> Demote(SoftTotal(h), CountAces(h)),
     isSoft |-> CountAces(h) > 0 /\ HardTotal(h) + 10 <= 21]

----------------------------------------------------------------------------
(* Deck.                                                                   *)

\* The random source (rand.New(rand.NewSource(time.Now().UnixNano()))) is a
\* generator with a state, seeded once per deck and never reseeded: each
\* Intn(n) call advances the state and yields a number in 0..n-1.  It is
\* modelled as a small congruential generator; the clock picks the seed.
\* ShuffleSpec below leaves the numbers free instead.
RngMod == 127
RngMul == 45
RngInc == 7

RngNext(s) == (s * RngMul + RngInc) % RngMod

Intn(s, n) == [val |-> RngNext(s) % n, rng |-> RngNext(s)]

\* the numbers j the shuffle gets from the source: st.js[i] is the result of
\* Intn(i + 1), asked for i = st.i down to 1, starting in state st.rng
IntnStream(st0) ==
    LET loop[st \in [rng : Nat, i : Int, js : Seq(Nat)]] ==
            IF st.i > 0
            THEN LET r == Intn(st.rng, st.i + 1)
                 IN  loop[[rng |-> r.rng, i |-> st.i - 1,
                           js |-> [st.js EXCEPT ![st.i] = r.val]]]
            ELSE st
    IN  loop[st0]

\* as Swap, but a plain assignment d.cards[i] = d.cards[j]
SwapOverwrite(cards, i, j) == [cards EXCEPT ![i + 1] = cards[j + 1]]

\* d.cards[i], d.cards[j] = d.cards[j], d.cards[i] (Go indexes from 0)
Swap(cards, i, j) == [cards EXCEPT ![i + 1] = cards[j + 1], ![j + 1] = cards[i + 1]]

\* the loop of shuffle, for i := n - 1; i > 0; i--, given the numbers js the
\* source answers with; st is the loop's state [cards, i, js]
shuffleLoop(st0) ==
    LET loop[st \in [cards : Seq(Card), i : Int, js : Seq(Nat)]] ==
            IF st.i > 0
            THEN loop[[cards |-> Swap(st.cards, st.i, st.js[st.i]), i |-> st.i - 1,
                       js |-> st.js]]
            ELSE st.cards
    IN  loop[st0]

\* as shuffleWith, with the loop started at i = n - 2
shuffleWithLastFixed(cards, js) ==
    shuffleLoop([cards |-> cards, i |-> Len(cards) - 2, js |-> js])

shuffleWith(cards, js) ==
    shuffleLoop([cards |-> cards, i |-> Len(cards) - 1, js |-> js])

shuffle(d) ==
    LET n == Len(d.cards)
        r == IntnStream([rng |-> d.rng, i |-> n - 1,
                         js |-> SubSeq([i \in 1..n |-> 0], 1, n - 1)])
    IN  [d EXCEPT !.cards = shuffleWith(d.cards, r.js), !.rng = r.rng]

\* the cards reset appends, in order: suits outermost, then ranks, then
\* d.shoe copies of each; the k-th append is given in closed form and the
\* result is the sequence of all of them
ResetCards(shoe) ==
    LET n == (Spades - Clubs + 1) * (King - Ace + 1) * shoe
    IN  SubSeq([k \in 1..n |->
                  [Suit |-> Clubs + ((k - 1) \div ((King - Ace + 1) * shoe)),
                   Rank |-> Ace + (((k - 1) \div shoe) % (King - Ace + 1))]],
               1, n)

reset(d) == shuffle([d EXCEPT !.cards = ResetCards(d.shoe)])

\* as NewDeck, without the clamp of shoe
NewDeckNoClamp(shoe, seed) ==
    reset([cards |-> <<>>, rng |-> seed, shoe |-> shoe])

NewDeck(shoe, seed) ==
    reset([cards |-> <<>>, rng |-> seed, shoe |-> IF shoe < 1 THEN 1 ELSE shoe])

\* as Draw, but the card returned stays in the deck
DrawNoShrink(d) ==
    LET d1 == IF Len(d.cards) = 0 THEN reset(d) ELSE d
    IN  [card |-> d1.cards[Len(d1.cards)], deck |-> d1]

Draw(d) ==
    LET d1 == IF Len(d.cards) = 0 THEN reset(d) ELSE d
    IN  [card |-> d1.cards[Len(d1.cards)],
         deck |-> [d1 EXCEPT !.cards = SubSeq(d1.cards, 1, Len(d1.cards) - 1)]]

----------------------------------------------------------------------------
(* Game.                                                                   *)

NewGame(shoe, seed) ==
    [Deck   |-> NewDeck(shoe, seed),
     Player |-> <<>>,
     Dealer |-> <<>>,
     State  |-> WaitingDeal,
     Result |-> ""]

\* as finishRound, with playerValue >= dealerValue as the player's win
finishRoundTieToPlayer(g) ==
    LET playerValue == Value(g.Player).best
        dealerValue == Value(g.Dealer).best
    IN  [g EXCEPT
          !.State = RoundOver,
          !.Result =
            IF playerValue > 21
            THEN "Player busts (" \o ToString(playerValue) \o "). Dealer wins."
            ELSE IF dealerValue > 21
            THEN "Dealer busts (" \o ToString(dealerValue) \o "). Player wins!"
            ELSE IF playerValue >= dealerValue
            THEN "Player wins! (" \o ToString(playerValue) \o " vs "
                     \o ToString(dealerValue) \o ")"
            ELSE "Dealer wins. (" \o ToString(dealerValue) \o " vs "
                     \o ToString(playerValue) \o ")"]

\* as finishRound, without g.State = RoundOver
finishRoundKeepsState(g) ==
    LET playerValue == Value(g.Player).best
        dealerValue == Value(g.Dealer).best
    IN  [g EXCEPT
          !.Result =
            IF playerValue > 21
            THEN "Player busts (" \o ToString(playerValue) \o "). Dealer wins."
            ELSE IF dealerValue > 21
            THEN "Dealer busts (" \o ToString(dealerValue) \o "). Player wins!"
            ELSE IF playerValue > dealerValue
            THEN "Player wins! (" \o ToString(playerValue) \o " vs "
                     \o ToString(dealerValue) \o ")"
            ELSE IF playerValue < dealerValue
            THEN "Dealer wins. (" \o ToString(dealerValue) \o " vs "
                     \o ToString(playerValue) \o ")"
            ELSE "Push. (" \o ToString(playerValue) \o " vs "
                     \o ToString(dealerValue) \o ")"]

finishRound(g) ==
    LET playerValue == Value(g.Player).best
        dealerValue == Value(g.Dealer).best
    IN  [g EXCEPT
          !.State = RoundOver,
          !.Result =
            IF playerValue > 21
            THEN "Player busts (" \o ToString(playerValue) \o "). Dealer wins."
            ELSE IF dealerValue > 21
            THEN "Dealer busts (" \o ToString(dealerValue) \o "). Player wins!"
            ELSE IF playerValue > dealerValue
            THEN "Player wins! (" \o ToString(playerValue) \o " vs "
                     \o ToString(dealerValue) \o ")"
            ELSE IF playerValue < dealerValue
            THEN "Dealer wins. (" \o ToString(dealerValue) \o " vs "
                     \o ToString(playerValue) \o ")"
            ELSE "Push. (" \o ToString(playerValue) \o " vs "
                     \o ToString(dealerValue) \o ")"]

\* as Deal, without the two Clear calls
DealNoClear(g) ==
    LET d1 == Draw(g.Deck)
        d2 == Draw(d1.deck)
        d3 == Draw(d2.deck)
        d4 == Draw(d3.deck)
        g1 == [g EXCEPT
                !.Result = "",
                !.State  = PlayerTurn,
                !.Player = Add(Add(g.Player, d1.card), d3.card),
                !.Dealer = Add(Add(g.Dealer, d2.card), d4.card),
                !.Deck   = d4.deck]
    IN  IF Value(g1.Player).best = 21 \/ Value(g1.Dealer).best = 21
        THEN finishRound(g1)
        ELSE g1

\* as Deal, without g.Result = ""
DealKeepsResult(g) ==
    LET d1 == Draw(g.Deck)
        d2 == Draw(d1.deck)
        d3 == Draw(d2.deck)
        d4 == Draw(d3.deck)
        g1 == [g EXCEPT
                !.State  = PlayerTurn,
                !.Player = Add(Add(Clear(g.Player), d1.card), d3.card),
                !.Dealer = Add(Add(Clear(g.Dealer), d2.card), d4.card),
                !.Deck   = d4.deck]
    IN  IF Value(g1.Player).best = 21 \/ Value(g1.Dealer).best = 21
        THEN finishRound(g1)
        ELSE g1

\* as Deal, with the player given the first two cards drawn
DealPlayerFirst(g) ==
    LET d1 == Draw(g.Deck)
        d2 == Draw(d1.deck)
        d3 == Draw(d2.deck)
        d4 == Draw(d3.deck)
        g1 == [g EXCEPT
                !.Result = "",
                !.State  = PlayerTurn,
                !.Player = Add(Add(Clear(g.Player), d1.card), d2.card),
                !.Dealer = Add(Add(Clear(g.Dealer), d3.card), d4.card),
                !.Deck   = d4.deck]
    IN  IF Value(g1.Player).best = 21 \/ Value(g1.Dealer).best = 21
        THEN finishRound(g1)
        ELSE g1

\* as Deal, with only the player's hand tested for 21
DealChecksPlayerOnly(g) ==
    LET d1 == Draw(g.Deck)
        d2 == Draw(d1.deck)
        d3 == Draw(d2.deck)
        d4 == Draw(d3.deck)
        g1 == [g EXCEPT
                !.Result = "",
                !.State  = PlayerTurn,
                !.Player = Add(Add(Clear(g.Player), d1.card), d3.card),
                !.Dealer = Add(Add(Clear(g.Dealer), d2.card), d4.card),
                !.Deck   = d4.deck]
    IN  IF Value(g1.Player).best = 21
        THEN finishRound(g1)
        ELSE g1

Deal(g) ==
    LET d1 == Draw(g.Deck)
        d2 == Draw(d1.deck)
        d3 == Draw(d2.deck)
        d4 == Draw(d3.deck)
        g1 == [g EXCEPT
                !.Result = "",
                !.State  = PlayerTurn,
                !.Player = Add(Add(Clear(g.Player), d1.card), d3.card),
                !.Dealer = Add(Add(Clear(g.Dealer), d2.card), d4.card),
                !.Deck   = d4.deck]
    IN  IF Value(g1.Player).best = 21 \/ Value(g1.Dealer).best = 21
        THEN finishRound(g1)
        ELSE g1

\* as PlayerHit, without the check of g.State
PlayerHitUnguarded(g) ==
    LET d  == Draw(g.Deck)
        g1 == [g EXCEPT !.Player = Add(g.Player, d.card), !.Deck = d.deck]
    IN  IF Value(g1.Player).best > 21 THEN finishRound(g1) ELSE g1

\* as PlayerHit, with playerValue >= 21 as the bust
PlayerHitBustAt21(g) ==
    IF g.State # PlayerTurn THEN g
    ELSE LET d  == Draw(g.Deck)
             g1 == [g EXCEPT !.Player = Add(g.Player, d.card), !.Deck = d.deck]
         IN  IF Value(g1.Player).best >= 21 THEN finishRound(g1) ELSE g1

PlayerHit(g) ==
    IF g.State # PlayerTurn THEN g
    ELSE LET d  == Draw(g.Deck)
             g1 == [g EXCEPT !.Player = Add(g.Player, d.card), !.Deck = d.deck]
         IN  IF Value(g1.Player).best > 21 THEN finishRound(g1) ELSE g1

isDealerSoft(g) == Value(g.Dealer).isSoft

\* as DealerLoop, with the dealer standing on every 17
RECURSIVE DealerLoopStandsOn17(_)
DealerLoopStandsOn17(g) ==
    LET dealerValue == Value(g.Dealer).best
    IN  IF dealerValue < 17
        THEN LET d == Draw(g.Deck)
             IN  DealerLoopStandsOn17([g EXCEPT !.Dealer = Add(g.Dealer, d.card),
                                                !.Deck = d.deck])
        ELSE g

\* the for loop of PlayerStand
RECURSIVE DealerLoop(_)
DealerLoop(g) ==
    LET dealerValue == Value(g.Dealer).best
    IN  IF dealerValue < 17 \/ (dealerValue = 17 /\ isDealerSoft(g))
        THEN LET d == Draw(g.Deck)
             IN  DealerLoop([g EXCEPT !.Dealer = Add(g.Dealer, d.card),
                                      !.Deck = d.deck])
        ELSE g

\* as PlayerStand, without the final finishRound
PlayerStandNoFinish(g) ==
    IF g.State # PlayerTurn THEN g
    ELSE DealerLoop([g EXCEPT !.State = DealerTurn])

\* as PlayerStand, without the check of g.State
PlayerStandUnguarded(g) ==
    finishRound(DealerLoop([g EXCEPT !.State = DealerTurn]))

PlayerStand(g) ==
    IF g.State # PlayerTurn THEN g
    ELSE finishRound(DealerLoop([g EXCEPT !.State = DealerTurn]))

----------------------------------------------------------------------------
(* The game as a state machine: one Game object and the calls made on it.  *)

Game == [Deck |-> Deck, Player |-> Player, Dealer |-> Dealer,
         State |-> State, Result |-> Result]

Becomes(g) ==
    /\ Deck' = g.Deck
    /\ Player' = g.Player
    /\ Dealer' = g.Dealer
    /\ State' = g.State
    /\ Result' = g.Result

Seeds == 0..MaxSeed
ShoeArgs == (0 - 1)..MaxShoe

Init ==
    \E shoe \in ShoeArgs, seed \in Seeds :
        LET g == NewGame(shoe, seed)
        IN  /\ Deck = g.Deck
            /\ Player = g.Player
            /\ Dealer = g.Dealer
            /\ State = g.State
            /\ Result = g.Result
            /\ call = [name |-> "NewGame", shoe |-> shoe]

DoDeal ==
    /\ Becomes(Deal(Game))
    /\ call' = [name |-> "Deal", from |-> State]

DoPlayerHit ==
    /\ Becomes(PlayerHit(Game))
    /\ call' = [name |-> "PlayerHit", from |-> State]

DoPlayerStand ==
    /\ Becomes(PlayerStand(Game))
    /\ call' = [name |-> "PlayerStand", from |-> State]

Next == DoDeal \/ DoPlayerHit \/ DoPlayerStand

Spec == Init /\ [][Next]_vars

----------------------------------------------------------------------------
(* The deck alone: one Deck object and the Draw calls made on it.          *)

DeckInit ==
    \E shoe \in ShoeArgs, seed \in Seeds :
        /\ Deck = NewDeck(shoe, seed)
        /\ Player = <<>>
        /\ Dealer = <<>>
        /\ State = WaitingDeal
        /\ Result = ""
        /\ call = [name |-> "NewDeck", shoe |-> shoe]

DoDraw ==
    /\ Deck' = Draw(Deck).deck
    /\ call' = [name |-> "Draw", card |-> Draw(Deck).card, size |-> Len(Deck.cards)]
    /\ UNCHANGED <<Player, Dealer, State, Result>>

DeckNext == DoDraw

DeckSpec == DeckInit /\ [][DeckNext]_vars

----------------------------------------------------------------------------
(* shuffle on its own: any cards, and any numbers from the random source.  *)

ShuffleCards == [Suit : {Clubs, Diamonds}, Rank : {Ace, King}]

SeqsUpTo(S, n) == UNION {[1..k -> S] : k \in 0..n}

\* the answers Intn(i + 1) can give for i = n-1 down to 1
Choices(n) == {js \in [1..(n - 1) -> 0..(n - 1)] : \A i \in 1..(n - 1) : js[i] <= i}

ShuffleInit ==
    /\ \E cards \in SeqsUpTo(ShuffleCards, MaxShuffleLen) :
           Deck = [cards |-> cards, rng |-> 0, shoe |-> 1]
    /\ Player = <<>>
    /\ Dealer = <<>>
    /\ State = WaitingDeal
    /\ Result = ""
    /\ call = [name |-> "cards"]

\* one shuffle of the cards given
DoShuffle ==
    /\ call.name = "cards"
    /\ \E js \in Choices(Len(Deck.cards)) :
           /\ Deck' = [Deck EXCEPT !.cards = shuffleWith(Deck.cards, js)]
           /\ call' = [name |-> "shuffle", before |-> Deck.cards, js |-> js]
    /\ UNCHANGED <<Player, Dealer, State, Result>>

ShuffleNext == DoShuffle

ShuffleSpec == ShuffleInit /\ [][ShuffleNext]_vars

----------------------------------------------------------------------------
(* Hand.Value on its own: any hand of up to MaxHandLen cards.              *)

HandCards == [Suit : {Spades}, Rank : Ranks]

ValueInit ==
    /\ Player \in SeqsUpTo(HandCards, MaxHandLen)
    /\ Deck = [cards |-> <<>>, rng |-> 0, shoe |-> 1]
    /\ Dealer = <<>>
    /\ State = WaitingDeal
    /\ Result = ""
    /\ call = [name |-> "hand"]

DoValue ==
    /\ call' = [name |-> "Value", best |-> Value(Player).best,
                isSoft |-> Value(Player).isSoft]
    /\ UNCHANGED <<Deck, Player, Dealer, State, Result>>

ValueNext == DoValue

ValueSpec == ValueInit /\ [][ValueNext]_vars

----------------------------------------------------------------------------
(* PlayerStand step by step: the call is followed through the assignment   *)
(* of DealerTurn, each iteration of the dealer's loop, and finishRound.    *)
(* While the call runs (State = DealerTurn) no other call is made: the     *)
(* input callback makes one call at a time.                                *)

StandSeeds == 0..MaxStandSeed

\* a game with a shoe of one deck
StandInit ==
    \E seed \in StandSeeds :
        LET g == NewGame(1, seed)
        IN  /\ Deck = g.Deck
            /\ Player = g.Player
            /\ Dealer = g.Dealer
            /\ State = g.State
            /\ Result = g.Result
            /\ call = [name |-> "NewGame", from |-> WaitingDeal]

StandDeal ==
    /\ State # DealerTurn
    /\ Becomes(Deal(Game))
    /\ call' = [name |-> "Deal", from |-> State]

StandPlayerHit ==
    /\ State # DealerTurn
    /\ Becomes(PlayerHit(Game))
    /\ call' = [name |-> "PlayerHit", from |-> State]

\* the entry of PlayerStand: the guard, then g.State = DealerTurn
StandEnter ==
    /\ State # DealerTurn
    /\ State' = IF State = PlayerTurn THEN DealerTurn ELSE State
    /\ call' = [name |-> "PlayerStand", from |-> State]
    /\ UNCHANGED <<Deck, Player, Dealer, Result>>

\* as dealerDraws, with the dealer drawing on every total below 21
dealerDrawsBelow21(g) == Value(g.Dealer).best < 21

\* the test of the dealer's loop: true where the loop draws and continues,
\* false where it breaks
dealerDraws(g) ==
    LET dealerValue == Value(g.Dealer).best
    IN  dealerValue < 17 \/ (dealerValue = 17 /\ isDealerSoft(g))

\* one iteration of the loop that draws
StandDraw ==
    /\ State = DealerTurn
    /\ dealerDraws(Game)
    /\ LET d == Draw(Deck)
       IN  /\ Dealer' = Add(Dealer, d.card)
           /\ Deck' = d.deck
    /\ call' = [name |-> "draw", from |-> State]
    /\ UNCHANGED <<Player, State, Result>>

\* the iteration that breaks, and the finishRound after the loop
StandFinish ==
    /\ State = DealerTurn
    /\ ~dealerDraws(Game)
    /\ Becomes(finishRound(Game))
    /\ call' = [name |-> "finishRound", from |-> State]

StandNext == StandDeal \/ StandPlayerHit \/ StandEnter \/ StandDraw \/ StandFinish

\* a call that has started runs on: nothing suspends or cancels it
StandSpec ==
    /\ StandInit
    /\ [][StandNext]_vars
    /\ WF_vars(StandDraw)
    /\ WF_vars(StandFinish)

----------------------------------------------------------------------------
(* The claims.                                                             *)

\* C1: PlayerHit and PlayerStand called in a state other than PlayerTurn
\* change nothing: State, Result, both hands and the deck stay as they were.
C1_NoOpOutsidePlayerTurn ==
    [][(call'.name \in {"PlayerHit", "PlayerStand"} /\ State # PlayerTurn)
          => UNCHANGED <<Deck, Player, Dealer, State, Result>>]_vars

\* a hit or a stand was called on a finished round
C1_Witness ==
    /\ call.name \in {"PlayerHit", "PlayerStand"}
    /\ call.from = RoundOver
    /\ Len(Player) > 2

\* C2: after Deal, from whatever state, both hands hold exactly 2 cards; the
\* state is PlayerTurn with an empty Result when neither hand is worth 21,
\* and RoundOver with a non-empty Result when one of them is.
C2_DealOutcome ==
    call.name = "Deal" =>
        /\ Len(Player) = 2
        /\ Len(Dealer) = 2
        /\ IF Value(Player).best = 21 \/ Value(Dealer).best = 21
           THEN State = RoundOver /\ Result # ""
           ELSE State = PlayerTurn /\ Result = ""

\* a Deal in the middle of a round, after a hit, that deals a 21
C2_Witness ==
    /\ call.name = "Deal"
    /\ call.from = PlayerTurn
    /\ Value(Dealer).best = 21
    /\ State = RoundOver

\* C3: Result is the empty string exactly when State is not RoundOver.
C3_ResultIffRoundOver == (Result = "") <=> (State # RoundOver)

\* a Deal on a finished round that starts a new player turn
C3_Witness ==
    /\ call.name = "Deal"
    /\ call.from = RoundOver
    /\ State = PlayerTurn
    /\ Result = ""

\* C4: PlayerHit in PlayerTurn appends the card drawn from the deck to the
\* player's hand and leaves the dealer's hand alone; a resulting value above
\* 21 ends the round with the bust message, any other value (21 included)
\* leaves State = PlayerTurn and Result empty.
C4_PlayerHit ==
    [][(call'.name = "PlayerHit" /\ State = PlayerTurn) =>
          /\ Player' = Append(Player, Draw(Deck).card)
          /\ Len(Player') = Len(Player) + 1
          /\ Deck' = Draw(Deck).deck
          /\ Dealer' = Dealer
          /\ LET v == Value(Player').best
             IN  IF v > 21
                 THEN /\ State' = RoundOver
                      /\ Result' = "Player busts (" \o ToString(v) \o "). Dealer wins."
                 ELSE /\ State' = PlayerTurn
                      /\ Result' = ""]_vars

\* a hit that brought the player to exactly 21
C4_Witness ==
    /\ call.name = "PlayerHit"
    /\ call.from = PlayerTurn
    /\ Len(Player) > 2
    /\ Value(Player).best = 21
    /\ State = PlayerTurn

\* the dealer has to draw on this hand: below 17, or a soft 17
DealerDrawsOn(h) ==
    Value(h).best < 17 \/ (Value(h).best = 17 /\ Value(h).isSoft)

\* C5: PlayerStand in PlayerTurn makes the dealer draw exactly while the
\* dealer's value is below 17 or a soft 17: at hard 17 or at 18 and more
\* nothing is drawn, at 16 or at soft 17 at least one card is; on return
\* State is RoundOver, the dealer has at least 17 and no soft 17, and the
\* player's hand is as it was.
C5_DealerPolicy ==
    [][(call'.name = "PlayerStand" /\ State = PlayerTurn) =>
          /\ State' = RoundOver
          /\ Player' = Player
          /\ Len(Dealer') >= Len(Dealer)
          /\ SubSeq(Dealer', 1, Len(Dealer)) = Dealer
          /\ \A k \in Len(Dealer)..Len(Dealer') :
                 DealerDrawsOn(SubSeq(Dealer', 1, k)) <=> (k < Len(Dealer'))
          /\ (Value(Dealer).best >= 18 \/ (Value(Dealer).best = 17 /\ ~Value(Dealer).isSoft))
                 => Dealer' = Dealer
          /\ (Value(Dealer).best = 16 \/ (Value(Dealer).best = 17 /\ Value(Dealer).isSoft))
                 => Len(Dealer') > Len(Dealer)
          /\ Value(Dealer').best >= 17
          /\ ~(Value(Dealer').best = 17 /\ Value(Dealer').isSoft)]_vars

\* a stand on which the dealer, dealt a soft 17, drew
C5_Witness ==
    /\ call.name = "PlayerStand"
    /\ call.from = PlayerTurn
    /\ State = RoundOver
    /\ Value(SubSeq(Dealer, 1, 2)).best = 17
    /\ Value(SubSeq(Dealer, 1, 2)).isSoft
    /\ Len(Dealer) > 2

\* C6: a resolved round is in RoundOver and its Result follows, in this
\* order, from the values p and d: p > 21 a dealer win naming p; else d > 21
\* a player win naming d; else p > d a player win; else p < d a dealer win;
\* else a push.
C6_ResultPriority ==
    State = RoundOver =>
        LET p == Value(Player).best
            d == Value(Dealer).best
        IN  /\ (p > 21) =>
                 Result = "Player busts (" \o ToString(p) \o "). Dealer wins."
            /\ (p <= 21 /\ d > 21) =>
                 Result = "Dealer busts (" \o ToString(d) \o "). Player wins!"
            /\ (p <= 21 /\ d <= 21 /\ p > d) =>
                 Result = "Player wins! (" \o ToString(p) \o " vs " \o ToString(d) \o ")"
            /\ (p <= 21 /\ d <= 21 /\ p < d) =>
                 Result = "Dealer wins. (" \o ToString(d) \o " vs " \o ToString(p) \o ")"
            /\ (p <= 21 /\ d <= 21 /\ p = d) =>
                 Result = "Push. (" \o ToString(p) \o " vs " \o ToString(d) \o ")"

\* a round the player stood on that ended in a push
C6_Witness ==
    /\ State = RoundOver
    /\ call.name = "PlayerStand"
    /\ Value(Player).best = Value(Dealer).best
    /\ Len(Dealer) > 2

\* C7: State starts as WaitingDeal and is WaitingDeal only before the first
\* Deal: no call leads back to it; from PlayerTurn a call leaves PlayerTurn
\* or gives RoundOver; from RoundOver only Deal changes the state, to
\* PlayerTurn (or to RoundOver again on a dealt 21).
C7_Lifecycle ==
    /\ State = WaitingDeal
    /\ [][/\ (State' = WaitingDeal) => (State = WaitingDeal /\ call'.name # "Deal")
          /\ (call'.name = "Deal") => (State' \in {PlayerTurn, RoundOver})
          /\ (State = PlayerTurn) => (State' \in {PlayerTurn, RoundOver})
          /\ (State = RoundOver /\ call'.name # "Deal") => (State' = RoundOver)
          /\ (State = RoundOver) => (State' \in {PlayerTurn, RoundOver})]_vars

\* a finished round restarted by Deal at PlayerTurn
C7_Witness ==
    /\ call.name = "Deal"
    /\ call.from = RoundOver
    /\ State = PlayerTurn
    /\ Len(Deck.cards) < 40

\* C8: the deck holds 52 * shoe cards after construction and after every
\* reset; a Draw on a non-empty deck returns a card and leaves one card
\* fewer; a Draw on an empty deck refills it and leaves 52 * shoe - 1.
C8_DeckSize ==
    /\ Deck.shoe >= 1
    /\ Len(reset(Deck).cards) = 52 * Deck.shoe
    /\ Len(Deck.cards) <= 52 * Deck.shoe
    /\ (call.name = "NewDeck") => (Len(Deck.cards) = 52 * Deck.shoe)
    /\ (call.name = "Draw") =>
          /\ call.card \in Card
          /\ (call.size > 0) => (Len(Deck.cards) = call.size - 1)
          /\ (call.size = 0) => (Len(Deck.cards) = 52 * Deck.shoe - 1)

\* a Draw on the empty deck
C8_Witness ==
    /\ call.name = "Draw"
    /\ call.size = 0
    /\ Len(Deck.cards) = 52 * Deck.shoe - 1

BagOf(cards) == [c \in {cards[i] : i \in 1..Len(cards)} |->
                    Cardinality({i \in 1..Len(cards) : cards[i] = c})]

\* C9: shuffle permutes the deck: whatever the numbers drawn, the cards
\* after it are the cards before it, each as many times, and as many.
C9_ShufflePermutes ==
    (call.name = "shuffle") =>
        /\ Len(Deck.cards) = Len(call.before)
        /\ BagOf(Deck.cards) = BagOf(call.before)

\* a shuffle that moved cards of a deck with a card held twice
C9_Witness ==
    /\ call.name = "shuffle"
    /\ Len(Deck.cards) = MaxShuffleLen
    /\ Deck.cards # call.before
    /\ Cardinality({Deck.cards[i] : i \in 1..Len(Deck.cards)}) < Len(Deck.cards)

\* the rank values of a hand added up: 2..9 as they are, Ten and the face
\* cards as 10
RECURSIVE RankSum(_)
RankSum(h) ==
    IF h = <<>> THEN 0
    ELSE (IF Head(h).Rank >= 10 THEN 10 ELSE Head(h).Rank) + RankSum(Tail(h))

NoAce(h) == \A i \in 1..Len(h) : h[i].Rank # 1

\* C10: for a hand without an Ace, Value gives the sum of the rank values
\* as best, also above 21, and isSoft = false.
C10_NoAceValue ==
    (call.name = "Value" /\ NoAce(Player)) =>
        /\ call.best = RankSum(Player)
        /\ call.isSoft = FALSE

\* a hand without an Ace worth more than 21
C10_Witness ==
    /\ call.name = "Value"
    /\ NoAce(Player)
    /\ call.best > 21
    /\ \E i \in 1..Len(Player) : Player[i].Rank > 10

\* the number of Aces of a hand
NumAces(h) == Cardinality({i \in 1..Len(h) : h[i].Rank = 1})

\* the total of a hand with every Ace scored as 1
AceLowSum(h) == RankSum(h)

\* the totals a hand can be given, scoring each Ace as 1 or as 11
Totals(h) == {AceLowSum(h) + 10 * k : k \in 0..NumAces(h)}

RanksOf(h) == [i \in 1..Len(h) |-> h[i].Rank]

\* C11: for every hand, best is the largest total of at most 21 that scoring
\* each Ace as 1 or 11 can give, and the total with every Ace as 1 when there
\* is none; so best > 21 exactly when that total exceeds 21.  {Ace} gives 11,
\* {Ace, Ace} 12 and {Ten, Seven, Ace} 18.
C11_BestTotal ==
    (call.name = "Value") =>
        LET fit == {t \in Totals(Player) : t <= 21}
        IN  /\ (fit # {}) => (call.best \in fit /\ \A t \in fit : t <= call.best)
            /\ (fit = {}) => (call.best = AceLowSum(Player))
            /\ (call.best > 21) <=> (AceLowSum(Player) > 21)
            /\ (RanksOf(Player) = <<1>>) => (call.best = 11)
            /\ (RanksOf(Player) = <<1, 1>>) => (call.best = 12)
            /\ (RanksOf(Player) = <<10, 7, 1>>) => (call.best = 18)

\* a hand of two Aces and more on which both Aces had to count as 1
C11_Witness ==
    /\ call.name = "Value"
    /\ NumAces(Player) = 2
    /\ call.best = AceLowSum(Player)
    /\ call.best <= 21

\* C12: for every hand, isSoft (from the second pass) is true exactly when an
\* Ace is still counted as 11 at the end of the demotion loop of the first
\* pass, and best is the hard total plus 10 when isSoft and the hard total
\* otherwise.  {Ace} and {Ace, Ace} are soft, {Ten, Seven, Ace} is not.
C12_SoftAgrees ==
    (call.name = "Value") =>
        /\ call.isSoft <=> (AcesLeft(SoftTotal(Player), CountAces(Player)) > 0)
        /\ call.best = AceLowSum(Player) + (IF call.isSoft THEN 10 ELSE 0)
        /\ (RanksOf(Player) = <<1>>) => call.isSoft
        /\ (RanksOf(Player) = <<1, 1>>) => call.isSoft
        /\ (RanksOf(Player) = <<10, 7, 1>>) => ~call.isSoft

\* a soft hand with three Aces
C12_Witness ==
    /\ call.name = "Value"
    /\ NumAces(Player) >= 3
    /\ call.isSoft
    /\ call.best = 21

\* the cards a Deal draws from, the next one last: the deck, on top of a
\* refilled deck when the deck runs out before the fourth draw
DealStack(d) ==
    IF Len(d.cards) >= 4 THEN d.cards ELSE reset(d).cards \o d.cards

\* C13: Deal drops the cards the hands held and draws four cards, each the
\* last card of the deck (refilled first when empty, also between two of the
\* four draws): the player gets the 1st and the 3rd, the dealer the 2nd and
\* the 4th.
C13_DealOrder ==
    [][(call'.name = "Deal") =>
          LET st == DealStack(Deck)
              n  == Len(st)
          IN  /\ Player' = <<st[n], st[n - 2]>>
              /\ Dealer' = <<st[n - 1], st[n - 3]>>
              /\ Deck'.cards = SubSeq(st, 1, n - 4)]_vars

\* a Deal in the middle of a round whose deck ran out after its second draw
C13_Witness ==
    /\ call.name = "Deal"
    /\ call.from = PlayerTurn
    /\ Len(Deck.cards) = 52 * Deck.shoe - 2

\* C14: PlayerStand always terminates.  Every draw of the dealer's loop is
\* made at a hard total below 17 and leaves a strictly larger hard total,
\* whatever the deck holds and whether or not the draw refills it, and a
\* call that has set DealerTurn goes on to RoundOver.
C14_StandTerminates ==
    /\ [][StandDraw => /\ HardTotal(Dealer) < 17
                       /\ HardTotal(Dealer') > HardTotal(Dealer)]_vars
    /\ (State = DealerTurn) ~> (State = RoundOver)

\* a stand that has ended after the dealer drew from a deck refilled inside
\* the loop
C14_Witness ==
    /\ call.name = "finishRound"
    /\ State = RoundOver
    /\ Len(Dealer) > 2
    /\ Len(Deck.cards) + (Len(Dealer) - 2) >= 52 * Deck.shoe

Copies(cards, c) == Cardinality({i \in 1..Len(cards) : cards[i] = c})

\* n copies of each of the 52 cards and nothing else
FullShoe(cards, n) ==
    /\ \A i \in 1..Len(cards) : cards[i] \in Card
    /\ \A c \in Card : Copies(cards, c) = n
    /\ Cardinality(Card) = 52

CardsOf(cards) == {cards[i] : i \in 1..Len(cards)}

\* the orderings of the cards of a deck
Orderings(cards) ==
    {SubSeq([i \in 1..Len(cards) |-> cards[p[i]]], 1, Len(cards)) :
        p \in Permutations(1..Len(cards))}

\* C16: for n distinct cards the shuffle maps the sequences of choices
\* (j in 0..i for i = n-1 down to 1) one-to-one onto the orderings of the
\* cards: there are as many choice sequences as orderings, every ordering is
\* the result of one, and no two give the same result.
C16_ShuffleBijective ==
    (call.name = "shuffle" /\ Cardinality(CardsOf(call.before)) = Len(call.before)) =>
        LET n == Len(call.before)
            results == {shuffleWith(call.before, js) : js \in Choices(n)}
        IN  /\ Cardinality(Choices(n)) = Cardinality(Orderings(call.before))
            /\ results = Orderings(call.before)
            /\ \A js \in Choices(n) :
                   (shuffleWith(call.before, js) = Deck.cards) => (js = call.js)

\* a shuffle that moved the cards of a deck of four different cards
C16_Witness ==
    /\ call.name = "shuffle"
    /\ Len(call.before) = 4
    /\ Cardinality(CardsOf(call.before)) = 4
    /\ Deck.cards # call.before

\* C17: while it is the player's turn the player holds at least 2 cards
\* worth at most 21 and the dealer exactly 2 cards not worth 21; the dealer
\* comes to hold more than 2 cards only by a PlayerStand made in PlayerTurn.
C17_PlayerTurnShape ==
    /\ []((State = PlayerTurn) =>
            /\ Value(Player).best <= 21
            /\ Len(Player) >= 2
            /\ Len(Dealer) = 2
            /\ Value(Dealer).best # 21)
    /\ [][(Len(Dealer') > 2 /\ Dealer' # Dealer) =>
            (call'.name = "PlayerStand" /\ State = PlayerTurn)]_vars

\* the player's turn going on after two hits, the dealer holding 20
C17_Witness ==
    /\ State = PlayerTurn
    /\ call.name = "PlayerHit"
    /\ Len(Player) >= 4
    /\ Value(Dealer).best = 20

\* the Result finishRound writes when the player's value p exceeds 21
PlayerBustsResult(p) == "Player busts (" \o ToString(p) \o "). Dealer wins."

\* C18: in RoundOver the two hands are never both bust: when the player's
\* value exceeds 21 the dealer holds exactly the 2 cards dealt, worth at most
\* 21, and Result is the 'Player busts' message; that message is written
\* only by a PlayerHit made in PlayerTurn.
C18_NeverBothBust ==
    /\ []((State = RoundOver) =>
            /\ ~(Value(Player).best > 21 /\ Value(Dealer).best > 21)
            /\ (Value(Player).best > 21) =>
                  /\ Len(Dealer) = 2
                  /\ Value(Dealer).best <= 21
                  /\ Result = PlayerBustsResult(Value(Player).best))
    /\ [][(Result' # Result /\ Result' = PlayerBustsResult(Value(Player').best)) =>
            (call'.name = "PlayerHit" /\ State = PlayerTurn)]_vars

\* a bust player, and a dealer's hand on which the dealer's loop would draw,
\* after a PlayerStand that did nothing
C18_Witness ==
    /\ State = RoundOver
    /\ call.name = "PlayerStand"
    /\ Value(Player).best > 21
    /\ Value(Dealer).best < 17

\* the copies of card c among the two hands and the deck
InPlay(c) == Copies(Player, c) + Copies(Dealer, c) + Copies(Deck.cards, c)

\* C19: in every state each of the 52 cards occurs at most shoe times among
\* the player's hand, the dealer's hand and the deck, also after the deck
\* has refilled itself in the middle of a round.
C19_CopiesWithinShoe == \A c \in Card : InPlay(c) <= Deck.shoe

\* C20: between calls State is never DealerTurn: whenever NewGame, Deal,
\* PlayerHit or PlayerStand has returned, State is WaitingDeal, PlayerTurn or
\* RoundOver.
C20_DealerTurnTransient ==
    /\ State # DealerTurn
    /\ State \in {WaitingDeal, PlayerTurn, RoundOver}

\* a PlayerStand has returned, the dealer having drawn and gone bust
C20_Witness ==
    /\ call.name = "PlayerStand"
    /\ call.from = PlayerTurn
    /\ Len(Dealer) > 2
    /\ Value(Dealer).best > 21
    /\ State = RoundOver

====
